---- MODULE Spec2Model ----
(***************************************************************************)
(* The MongoSQL parser (mongosql/parser.py): an LALR(1) shift-reduce       *)
(* parser that ply.yacc builds from the grammar written in the docstrings  *)
(* of the p_* functions, each of which is the semantic action of its       *)
(* productions.  The module declares no precedence table, so yacc settles  *)
(* every shift/reduce conflict of the expression grammar by shifting.      *)
(*                                                                         *)
(* State: the token stream of one query, the position of the lookahead,    *)
(* the parser's symbol stack (grammar symbol and semantic value), the heap *)
(* of operation objects the actions mutate in place, and the outcome.      *)
(***************************************************************************)
EXTENDS Integers, Sequences, FiniteSets, TLC

(***************************************************************************)
(* Bounds of the explored inputs.                                          *)
(***************************************************************************)
MaxOps == 2        \* binary operators in an unparenthesized chain
MaxMods == 3       \* modifier clauses after a SELECT base statement
MaxFields == 3     \* names in a SELECT field list
MaxSortItems == 2  \* items in one SORT clause
MaxProjects == 2   \* PROJECT clauses after AGGREGATE <symbol>
MaxNamed == 2      \* named expressions in one list

(***************************************************************************)
(* Python values.  Every value carries its type in "node", so that values  *)
(* of different Python types are different values here too.                *)
(***************************************************************************)
None == [node |-> "None"]
PyInt(n) == [node |-> "int", int |-> n]
PyStr(s) == [node |-> "str", str |-> s]
PyText(cs) == [node |-> "str", chars |-> cs]
PyBool(b) == [node |-> "bool", bool |-> b]
PyFloat(t) == [node |-> "float", tenths |-> t]
PyList(s) == [node |-> "list", items |-> s]
PyTuple(a, b) == [node |-> "tuple", fst |-> a, snd |-> b]
PyDict(f) == [node |-> "dict", map |-> f]
Ref(a) == [node |-> "ref", addr |-> a]

\* list.append(x)
ListAppend(l, x) == PyList(Append(l.items, x))

(***************************************************************************)
(* The AST classes of mongosql.support, as the parser constructs them.     *)
(***************************************************************************)
Symbol(name) == [node |-> "Symbol", name |-> name]
Operation(first, operator, second) ==
    [node |-> "Operation", first |-> first, operator |-> operator, second |-> second]
Comparison(first, operator, second) ==
    [node |-> "Comparison", first |-> first, operator |-> operator, second |-> second]
LogicalAnd(left, right) == [node |-> "LogicalAnd", left |-> left, right |-> right]
LogicalOr(left, right) == [node |-> "LogicalOr", left |-> left, right |-> right]
LogicalNot(operand) == [node |-> "LogicalNot", operand |-> operand]
FunctionCall(name, args) == [node |-> "FunctionCall", name |-> name, args |-> args]
named_expression(name, expression) ==
    [node |-> "named_expression", name |-> name, expression |-> expression]
AggregateCmdProject(fields) == [node |-> "AggregateCmdProject", fields |-> fields]
\* Map(pairs): the entries in the order given; Map() has none
Map(pairs) == [node |-> "Map", entries |-> pairs]
\* SelectOperation(collection=, fields=): the modifier fields start absent
SelectOperation(collection, fields) ==
    [node |-> "SelectOperation", collection |-> collection, fields |-> fields,
     query |-> None, limit |-> None, skip |-> None, sort |-> None]
\* AggregateOperation(collection=): the pipeline starts empty
AggregateOperation(collection) ==
    [node |-> "AggregateOperation", collection |-> collection, pipeline |-> PyList(<<>>)]

(***************************************************************************)
(* Tokens, as the lexer hands them over: a type and a value.               *)
(***************************************************************************)
Tok(type, value) == [type |-> type, value |-> value]
Kw(type) == Tok(type, PyStr(type))
SymTok(name) == Tok("SYMBOL", PyStr(name))
IntTok(n) == Tok("INTEGER", PyInt(n))

ArithOps == {"PLUS", "MINUS", "STAR", "SLASH", "PERCENT"}
CmpOps == {"LT", "LTE", "GT", "GTE", "DBLEQUAL", "NE"}
BinOps == ArithOps \cup CmpOps \cup {"AND", "OR"}
Lexeme(type) ==
    CASE type = "PLUS" -> "+" [] type = "MINUS" -> "-" [] type = "STAR" -> "*"
      [] type = "SLASH" -> "/" [] type = "PERCENT" -> "%"
      [] type = "LT" -> "<" [] type = "LTE" -> "<=" [] type = "GT" -> ">"
      [] type = "GTE" -> ">=" [] type = "DBLEQUAL" -> "==" [] type = "NE" -> "!="
      [] OTHER -> type
OpTok(type) == Tok(type, PyStr(Lexeme(type)))

(***************************************************************************)
(* The queries explored.  A query is described by its clauses and          *)
(* rendered to the token stream the lexer would produce for its text.      *)
(***************************************************************************)
Names == {"a", "b"}
Colls == {"c", "d"}
Atoms == {SymTok("a"), IntTok(1)}
ChainOps == {"PLUS", "MINUS", "STAR", "GT", "LT", "AND", "OR"}

SeqsUpTo(S, lo, hi) == UNION {[1..n -> S] : n \in lo..hi}

RECURSIVE Flatten(_)
Flatten(ss) == IF ss = <<>> THEN <<>> ELSE Head(ss) \o Flatten(Tail(ss))

\* s[1] sep s[2] sep ... s[n], each s[i] a token sequence
RECURSIVE Join(_, _)
Join(ss, sep) ==
    IF Len(ss) <= 1 THEN Flatten(ss) ELSE Head(ss) \o <<sep>> \o Join(Tail(ss), sep)

\* u[1] o[1] u[2] ... o[k] u[k+1]
Chain(us, os) ==
    Flatten([i \in 1..(Len(us) + Len(os)) |->
                IF i % 2 = 1 THEN <<us[(i + 1) \div 2]>> ELSE <<OpTok(os[i \div 2])>>])

Chains(lo, hi) ==
    UNION {{Chain(us, os) : us \in [1..(k + 1) -> Atoms], os \in [1..k -> ChainOps]} :
             k \in lo..hi}

Literals ==
    {<<Tok("FLOAT", PyFloat(15))>>, <<Tok("TRUE", PyBool(TRUE))>>,
     <<Tok("FALSE", PyBool(FALSE))>>, <<Tok("NULL", None)>>,
     <<Tok("STRING", PyText(<<"'", "x", "'">>))>>,
     <<Tok("STRING", PyText(<<"\"", "x", "y", "\"">>))>>}

Calls ==
    {<<SymTok("f"), Kw("LPAREN")>> \o Join(args, Kw("COMMA")) \o <<Kw("RPAREN")>> :
        args \in SeqsUpTo(Chains(0, 0) \cup {<<SymTok("a"), OpTok("PLUS"), IntTok(1)>>}, 0, 2)}

\* a > 1 AND b < 2,  1 + 2 * 3,  1 * 2 + 3
Examples ==
    {<<SymTok("a"), OpTok("GT"), IntTok(1), OpTok("AND"), SymTok("b"), OpTok("LT"), IntTok(2)>>,
     <<IntTok(1), OpTok("PLUS"), IntTok(2), OpTok("STAR"), IntTok(3)>>,
     <<IntTok(1), OpTok("STAR"), IntTok(2), OpTok("PLUS"), IntTok(3)>>}

ExpressionTexts ==
    Chains(0, MaxOps)
      \cup {<<u, OpTok(o), v>> : u \in {SymTok("a")}, o \in BinOps, v \in {IntTok(1)}}
      \cup {<<Kw("NOT")>> \o c : c \in Chains(0, 1)}
      \cup {<<u, OpTok(o), Kw("NOT"), v>> : u \in Atoms, o \in {"AND", "OR"}, v \in Atoms}
      \cup {<<Kw("LPAREN")>> \o c \o <<Kw("RPAREN"), OpTok(o), u>> :
               c \in Chains(0, 1), o \in ChainOps, u \in {SymTok("b")}}
      \cup {<<u, OpTok(o), Kw("LPAREN")>> \o c \o <<Kw("RPAREN")>> :
               c \in Chains(1, 1), o \in {"STAR", "AND"}, u \in {SymTok("b")}}
      \cup {<<Kw("NOT"), Kw("LPAREN")>> \o c \o <<Kw("RPAREN")>> : c \in Chains(1, 1)}
      \cup Literals \cup Calls \cup Examples

\* text that is no sentence of the grammar
Malformed ==
    {<<Kw("SELECT"), Kw("FROM"), SymTok("c")>>,
     <<SymTok("a"), SymTok("b")>>,
     <<Kw("LPAREN"), SymTok("a")>>,
     <<SymTok("a"), OpTok("PLUS")>>,
     <<Kw("SELECT"), Kw("STAR"), Kw("FROM"), SymTok("c"), Kw("LIMIT")>>,
     <<Kw("AGGREGATE"), SymTok("c"), Kw("PROJECT"), SymTok("a")>>,
     <<Kw("LBRACE"), Kw("COMMA"), Kw("RBRACE")>>}

WhereExprs ==
    {[node |-> "expr", toks |-> <<SymTok("a"), OpTok("GT"), IntTok(1)>>],
     [node |-> "expr", toks |-> <<SymTok("b")>>]}

SortItem(name, dir) == [name |-> name, dir |-> dir]
SortItems == {SortItem(n, d) : n \in Names, d \in {"", "ASC", "DESC"}}

Clause(kw, arg) == [kw |-> kw, arg |-> arg]
Clauses ==
    {Clause("WHERE", e) : e \in WhereExprs}
      \cup {Clause(k, PyInt(n)) : k \in {"LIMIT", "SKIP"}, n \in {1, 2}}
      \cup {Clause("SORT", PyList(s)) :
               s \in {<<SortItem("a", "DESC")>>, <<SortItem("a", ""), SortItem("b", "DESC")>>}}

NamedItem(name, form, toks) == [name |-> name, form |-> form, toks |-> toks]
NamedItems ==
    {NamedItem(n, f, <<t>>) : n \in Names, f \in {"eq", "as"}, t \in {SymTok("x")}}
StageItems ==
    {NamedItem("a", "eq", <<SymTok("x")>>), NamedItem("b", "as", <<IntTok(1)>>)}

Fields(star, names) == [star |-> star, names |-> names]
AllFields == Fields(TRUE, <<>>)

SelectQuery(fields, coll, mods) ==
    [kind |-> "select", fields |-> fields, coll |-> coll, mods |-> mods]
AggregateQuery(coll, stages) == [kind |-> "aggregate", coll |-> coll, stages |-> stages]
MapQuery(items, trailing) == [kind |-> "map", items |-> items, trailing |-> trailing]
TextQuery(toks) == [kind |-> "text", toks |-> toks]

Queries ==
    {TextQuery(t) : t \in ExpressionTexts \cup Malformed}
      \cup {SelectQuery(f, c, <<>>) :
               f \in {AllFields} \cup {Fields(FALSE, s) : s \in SeqsUpTo(Names, 1, MaxFields)},
               c \in Colls}
      \cup {SelectQuery(f, "c", m) :
               f \in {Fields(FALSE, <<"a", "b">>)},
               m \in SeqsUpTo(Clauses, 1, MaxMods)}
      \cup {SelectQuery(AllFields, "c", <<Clause("SORT", PyList(s))>>) :
               s \in SeqsUpTo(SortItems, 1, MaxSortItems)}
      \cup {AggregateQuery("c", st) :
               st \in SeqsUpTo(SeqsUpTo(StageItems, 1, MaxNamed), 0, MaxProjects)}
      \cup {MapQuery(s, tr) : s \in SeqsUpTo(NamedItems, 1, MaxNamed), tr \in BOOLEAN}
      \cup {MapQuery(<<>>, FALSE)}

RenderNamed(it) ==
    IF it.form = "eq" THEN <<SymTok(it.name), Kw("EQUAL")>> \o it.toks
    ELSE it.toks \o <<Kw("AS"), SymTok(it.name)>>
RenderNamedList(items) ==
    Join([i \in 1..Len(items) |-> RenderNamed(items[i])], Kw("COMMA"))
RenderSortItem(it) ==
    <<SymTok(it.name)>> \o (IF it.dir = "" THEN <<>> ELSE <<Kw(it.dir)>>)
RenderClause(cl) ==
    <<Kw(cl.kw)>> \o
      CASE cl.kw = "WHERE" -> cl.arg.toks
        [] cl.kw \in {"LIMIT", "SKIP"} -> <<IntTok(cl.arg.int)>>
        [] cl.kw = "SORT" ->
             Join([i \in 1..Len(cl.arg.items) |-> RenderSortItem(cl.arg.items[i])],
                  Kw("COMMA"))
RenderFields(f) ==
    IF f.star THEN <<OpTok("STAR")>>
    ELSE Join([i \in 1..Len(f.names) |-> <<SymTok(f.names[i])>>], Kw("COMMA"))

Render(q) ==
    CASE q.kind = "text" -> q.toks
      [] q.kind = "select" ->
           <<Kw("SELECT")>> \o RenderFields(q.fields) \o <<Kw("FROM"), SymTok(q.coll)>>
             \o Flatten([i \in 1..Len(q.mods) |-> RenderClause(q.mods[i])])
      [] q.kind = "aggregate" ->
           <<Kw("AGGREGATE"), SymTok(q.coll)>>
             \o Flatten([i \in 1..Len(q.stages) |->
                           <<Kw("PROJECT")>> \o RenderNamedList(q.stages[i])])
      [] q.kind = "map" ->
           <<Kw("LBRACE")>> \o RenderNamedList(q.items)
             \o (IF q.trailing THEN <<Kw("COMMA")>> ELSE <<>>) \o <<Kw("RBRACE")>>

(***************************************************************************)
(* The parser state.                                                       *)
(***************************************************************************)
VARIABLES
    input,     \* the query being parsed
    tokens,    \* its token stream
    pos,       \* index of the lookahead token
    symstack,  \* the parser's stack: grammar symbol and semantic value
    heap,      \* the operation objects created so far; Ref(i) is heap[i]
    pc,        \* "parse", "accept" or "error"
    result     \* what parse() returns

vars == <<input, tokens, pos, symstack, heap, pc, result>>

Init ==
    /\ input \in Queries
    /\ tokens = Render(input)
    /\ pos = 1
    /\ symstack = <<>>
    /\ heap = <<>>
    /\ pc = "parse"
    /\ result = None

\* the type of the lookahead token
la == IF pos > Len(tokens) THEN "$end" ELSE tokens[pos].type

\* the k-th grammar symbol from the top of the stack
S(k) == IF Len(symstack) >= k THEN symstack[Len(symstack) - k + 1].sym ELSE "$bottom"

\* the right-hand side rhs lies on top of the stack
TopIs(rhs) ==
    /\ Len(symstack) >= Len(rhs)
    /\ \A i \in 1..Len(rhs) : symstack[Len(symstack) - Len(rhs) + i].sym = rhs[i]

\* p[i] of a production with n right-hand symbols
P(n, i) == symstack[Len(symstack) - n + i].val

\* what a Ref stands for
Deref(v) == IF v.node = "ref" THEN heap[v.addr] ELSE v

(***************************************************************************)
(* The LALR(1) automaton of the grammar, read off the stack: the state is  *)
(* determined by the symbols on the stack, and each state's actions by the *)
(* productions that can continue from it.                                  *)
(***************************************************************************)
ExprStart ==
    {"SYMBOL", "INTEGER", "FLOAT", "TRUE", "FALSE", "NULL", "STRING",
     "LBRACE", "LPAREN", "NOT"}
SelectFollow == {"$end", "WHERE", "LIMIT", "SKIP", "SORT"}
SortFollow == SelectFollow \cup {"COMMA"}
AggregateFollow == {"$end", "PROJECT"}
NamedFollow == {"$end", "COMMA", "PROJECT", "RBRACE"}
\* lookaheads on which a complete operator expression is reduced
ExprFollow == SelectFollow \cup NamedFollow \cup {"AS", "RPAREN"}
\* lookaheads on which a complete operand is reduced
AtomFollow == ExprFollow \cup BinOps

\* the symbol on top starts a named_expression
NamedStart ==
    \/ S(2) \in {"LBRACE", "PROJECT"}
    \/ S(2) = "COMMA" /\ S(3) = "named_expression_list"

\* the production a SYMBOL on top of the stack belongs to
SymbolState ==
    CASE S(2) = "SELECT" -> "symbol_list_one"
      [] S(2) = "COMMA" /\ S(3) = "symbol_list" -> "symbol_list"
      [] S(2) = "FROM" -> "select_base"
      [] S(2) = "AGGREGATE" -> "aggregate"
      [] S(2) = "SORT" \/ (S(2) = "COMMA" /\ S(3) = "sort_spec") -> "sort_item"
      [] S(2) = "AS" -> "as_name"
      [] NamedStart -> "named"
      [] OTHER -> "expression"

\* a complete operator expression lies on top of the stack
HasHandle ==
    /\ S(1) = "expression"
    /\ \/ S(2) = "NOT"
       \/ S(2) \in BinOps /\ S(3) = "expression"

\* yacc.yacc() finds no precedence table in the module: tokens and rules all
\* have level 0 and associativity 'right', for which a shift/reduce conflict
\* is settled by shifting
OnConflict(token) == "shift"

\* the token types the current state shifts
Shiftable ==
    LET t == S(1) IN
    CASE t = "$bottom" -> ExprStart \cup {"SELECT", "AGGREGATE"}
      [] t = "STAR" /\ S(2) = "SELECT" -> {}
      [] t \in BinOps /\ ~(t = "STAR" /\ S(2) = "SELECT") -> ExprStart
      [] t \in {"NOT", "WHERE", "EQUAL", "PROJECT"} -> ExprStart
      [] t = "LPAREN" -> ExprStart \cup (IF S(2) = "SYMBOL" THEN {"RPAREN"} ELSE {})
      [] t = "LBRACE" -> ExprStart \cup {"RBRACE"}
      [] t = "COMMA" /\ S(2) = "expression_list" -> ExprStart
      [] t = "COMMA" /\ S(2) = "named_expression_list" ->
           ExprStart \cup (IF S(3) = "LBRACE" THEN {"RBRACE"} ELSE {})
      [] t = "COMMA" /\ S(2) \in {"symbol_list", "sort_spec"} -> {"SYMBOL"}
      [] t = "expression" ->
           {o \in BinOps : HasHandle => OnConflict(o) = "shift"}
             \cup (IF S(2) = "LPAREN" /\ S(3) # "SYMBOL" THEN {"RPAREN"} ELSE {})
             \cup (IF NamedStart THEN {"AS"} ELSE {})
      [] t = "expression_list" -> {"COMMA", "RPAREN"}
      [] t = "SYMBOL" /\ SymbolState = "expression" -> {"LPAREN"}
      [] t = "SYMBOL" /\ SymbolState = "named" -> {"EQUAL", "LPAREN"}
      [] t = "SYMBOL" /\ SymbolState = "sort_item" -> {"ASC", "DESC"}
      [] t = "named_expression_list" /\ S(2) = "LBRACE" -> {"COMMA", "RBRACE"}
      [] t = "named_expression_list" /\ S(2) = "PROJECT" -> {"COMMA"}
      [] t \in {"AS", "AGGREGATE", "FROM", "SORT"} -> {"SYMBOL"}
      [] t = "operation_aggregate" -> {"PROJECT"}
      [] t = "SELECT" -> {"STAR", "SYMBOL"}
      [] t = "fields_spec" -> {"FROM"}
      [] t \in {"symbol_list", "sort_spec"} -> {"COMMA"}
      [] t = "operation_select" -> {"WHERE", "LIMIT", "SKIP", "SORT"}
      [] t \in {"LIMIT", "SKIP"} -> {"INTEGER"}
      [] OTHER -> {}

\* a complete operator expression is reduced on this lookahead
ReducesExpr ==
    \/ la \in ExprFollow
    \/ la \in BinOps /\ OnConflict(la) = "reduce"

\* replace the n symbols on top by the left-hand side and its value
Reduce(n, lhs, v) ==
    /\ symstack' = Append(SubSeq(symstack, 1, Len(symstack) - n), [sym |-> lhs, val |-> v])
    /\ UNCHANGED <<input, tokens, pos, pc, result>>

\* an exception leaves parse()
Raise ==
    /\ pc' = "error"
    /\ UNCHANGED <<input, tokens, pos, symstack, heap, result>>

Shift ==
    /\ pc = "parse"
    /\ la \in Shiftable
    /\ symstack' = Append(symstack, [sym |-> la, val |-> tokens[pos].value])
    /\ pos' = pos + 1
    /\ UNCHANGED <<input, tokens, heap, pc, result>>

Accept ==
    /\ pc = "parse"
    /\ TopIs(<<"statement">>) /\ Len(symstack) = 1 /\ la = "$end"
    /\ pc' = "accept"
    /\ result' = Deref(P(1, 1))
    /\ UNCHANGED <<input, tokens, pos, symstack, heap>>

(***************************************************************************)
(* Statements and expressions.                                             *)
(***************************************************************************)
p_statement ==
    /\ pc = "parse"
    /\ Len(symstack) = 1 /\ S(1) \in {"expression", "operation"} /\ la = "$end"
    /\ Reduce(1, "statement", P(1, 1))
    /\ UNCHANGED heap

p_operation ==
    /\ pc = "parse"
    /\ S(1) \in {"operation_select", "operation_aggregate"} /\ la = "$end"
    /\ Reduce(1, "operation", P(1, 1))
    /\ UNCHANGED heap

p_expression_in_parens ==
    /\ pc = "parse"
    /\ TopIs(<<"LPAREN", "expression", "RPAREN">>) /\ la \in AtomFollow
    /\ Reduce(3, "expression", P(3, 2))
    /\ UNCHANGED heap

p_expression_base_type ==
    /\ pc = "parse"
    /\ TopIs(<<"base_type">>) /\ la \in AtomFollow
    /\ Reduce(1, "expression", P(1, 1))
    /\ UNCHANGED heap

p_expression_symbol ==
    /\ pc = "parse"
    /\ TopIs(<<"SYMBOL">>)
    /\ \/ SymbolState = "expression" /\ la \in AtomFollow
       \/ SymbolState = "named" /\ la \in BinOps \cup {"AS"}
    /\ Reduce(1, "expression", Symbol(P(1, 1)))
    /\ UNCHANGED heap

p_expression_operation ==
    /\ pc = "parse"
    /\ \E o \in ArithOps : TopIs(<<"expression", o, "expression">>)
    /\ ReducesExpr
    /\ Reduce(3, "expression", Operation(P(3, 1), P(3, 2), P(3, 3)))
    /\ UNCHANGED heap

p_expression_comparison ==
    /\ pc = "parse"
    /\ \E o \in CmpOps : TopIs(<<"expression", o, "expression">>)
    /\ ReducesExpr
    /\ Reduce(3, "expression", Comparison(P(3, 1), P(3, 2), P(3, 3)))
    /\ UNCHANGED heap

p_expression_logical_and ==
    /\ pc = "parse"
    /\ TopIs(<<"expression", "AND", "expression">>)
    /\ ReducesExpr
    /\ Reduce(3, "expression", LogicalAnd(P(3, 1), P(3, 3)))
    /\ UNCHANGED heap

p_expression_logical_or ==
    /\ pc = "parse"
    /\ TopIs(<<"expression", "OR", "expression">>)
    /\ ReducesExpr
    /\ Reduce(3, "expression", LogicalOr(P(3, 1), P(3, 3)))
    /\ UNCHANGED heap

p_expression_not ==
    /\ pc = "parse"
    /\ TopIs(<<"NOT", "expression">>)
    /\ ReducesExpr
    /\ Reduce(2, "expression", LogicalNot(P(2, 1)))
    /\ UNCHANGED heap

p_expression_call ==
    /\ pc = "parse"
    /\ la \in AtomFollow
    /\ \/ /\ TopIs(<<"SYMBOL", "LPAREN", "expression_list", "RPAREN">>)
          /\ Reduce(4, "expression", FunctionCall(P(4, 1), P(4, 3)))
       \/ /\ TopIs(<<"SYMBOL", "LPAREN", "RPAREN">>)
          /\ Reduce(3, "expression", FunctionCall(P(3, 1), PyList(<<>>)))
    /\ UNCHANGED heap

p_expression_list_one ==
    /\ pc = "parse"
    /\ TopIs(<<"SYMBOL", "LPAREN", "expression">>) /\ la \in {"COMMA", "RPAREN"}
    /\ Reduce(1, "expression_list", PyList(<<P(1, 1)>>))
    /\ UNCHANGED heap

p_expression_list ==
    /\ pc = "parse"
    /\ TopIs(<<"expression_list", "COMMA", "expression">>) /\ la \in {"COMMA", "RPAREN"}
    /\ Reduce(3, "expression_list", ListAppend(P(3, 1), P(3, 3)))
    /\ UNCHANGED heap

(***************************************************************************)
(* Named expressions.                                                      *)
(***************************************************************************)
\* variant: name and expression change places
p_named_expression_as_Swapped ==
    /\ pc = "parse"
    /\ TopIs(<<"expression", "AS", "SYMBOL">>) /\ la \in NamedFollow
    /\ Reduce(3, "named_expression", named_expression(P(3, 1), P(3, 3)))
    /\ UNCHANGED heap

p_named_expression_as ==
    /\ pc = "parse"
    /\ TopIs(<<"expression", "AS", "SYMBOL">>) /\ la \in NamedFollow
    /\ Reduce(3, "named_expression", named_expression(P(3, 3), P(3, 1)))
    /\ UNCHANGED heap

p_named_expression ==
    /\ pc = "parse"
    /\ TopIs(<<"SYMBOL", "EQUAL", "expression">>) /\ la \in NamedFollow
    /\ Reduce(3, "named_expression", named_expression(P(3, 1), P(3, 3)))
    /\ UNCHANGED heap

p_named_expression_list_one ==
    /\ pc = "parse"
    /\ TopIs(<<"named_expression">>) /\ S(2) \in {"LBRACE", "PROJECT"}
    /\ la \in NamedFollow
    /\ IF P(1, 1).node = "named_expression"
       THEN Reduce(1, "named_expression_list", PyList(<<P(1, 1)>>)) /\ UNCHANGED heap
       ELSE Raise

p_named_expression_list ==
    /\ pc = "parse"
    /\ TopIs(<<"named_expression_list", "COMMA", "named_expression">>)
    /\ la \in NamedFollow
    /\ IF P(3, 3).node = "named_expression"
       THEN Reduce(3, "named_expression_list", ListAppend(P(3, 1), P(3, 3)))
              /\ UNCHANGED heap
       ELSE Raise

(***************************************************************************)
(* Aggregation framework.                                                  *)
(***************************************************************************)
p_operation_aggregate ==
    /\ pc = "parse"
    /\ TopIs(<<"AGGREGATE", "SYMBOL">>) /\ la \in AggregateFollow
    /\ IF P(2, 2).node = "str"
       THEN /\ heap' = Append(heap, AggregateOperation(P(2, 2)))
            /\ Reduce(2, "operation_aggregate", Ref(Len(heap) + 1))
       ELSE Raise

\* variant: the fields are added to the last stage when there is one
PipelineAppend_Merges(op, fields) ==
    LET n == Len(op.pipeline.items) IN
    IF n = 0 THEN [op EXCEPT !.pipeline = ListAppend(@, AggregateCmdProject(fields))]
    ELSE [op EXCEPT !.pipeline.items[n].fields.items = @ \o fields.items]
\* p[0].pipeline.append(AggregateCmdProject(p[3]))
PipelineAppend(op, fields) ==
    [op EXCEPT !.pipeline = ListAppend(@, AggregateCmdProject(fields))]

p_operation_aggregate_project ==
    /\ pc = "parse"
    /\ TopIs(<<"operation_aggregate", "PROJECT", "named_expression_list">>)
    /\ la \in AggregateFollow
    /\ IF \A i \in 1..Len(P(3, 3).items) : P(3, 3).items[i].node = "named_expression"
       THEN /\ heap' = [heap EXCEPT ![P(3, 1).addr] = PipelineAppend(@, P(3, 3))]
            /\ Reduce(3, "operation_aggregate", P(3, 1))
       ELSE Raise

(***************************************************************************)
(* The SELECT query.                                                       *)
(***************************************************************************)
\* isinstance(v, Expression): a Python int, str, float, bool or None is not one
IsExpression(v) == v.node \notin {"int", "str", "float", "bool", "None"}

p_operation_select_base ==
    /\ pc = "parse"
    /\ TopIs(<<"SELECT", "fields_spec", "FROM", "SYMBOL">>) /\ la \in SelectFollow
    /\ IF P(4, 2).node \in {"None", "list", "tuple"} /\ P(4, 4).node = "str"
       THEN /\ heap' = Append(heap, SelectOperation(P(4, 4), P(4, 2)))
            /\ Reduce(4, "operation_select", Ref(Len(heap) + 1))
       ELSE Raise

\* p[0].query = p[3]
SetQuery(op, v) == [op EXCEPT !.query = v]
\* variant: a limit already set is kept
SetLimit_KeepsFirst(op, v) == IF op.limit = None THEN [op EXCEPT !.limit = v] ELSE op
\* p[0].limit = p[3]
SetLimit(op, v) == [op EXCEPT !.limit = v]
\* variant: the assignment also overwrites limit
SetSkip_ClobbersLimit(op, v) == [op EXCEPT !.skip = v, !.limit = v]
\* p[0].skip = p[3]
SetSkip(op, v) == [op EXCEPT !.skip = v]

\* dict(pairs): the pairs are stored one after the other, a later pair
\* replacing the value an earlier one stored under the same key
RECURSIVE DictOf(_)
DictOf(pairs) ==
    IF pairs = <<>> THEN <<>>
    ELSE LET n == Len(pairs)
             d == DictOf(SubSeq(pairs, 1, n - 1))
             k == pairs[n].fst.str
         IN  [x \in DOMAIN d \cup {k} |-> IF x = k THEN pairs[n].snd ELSE d[x]]

\* variant: the first pair of a key is the one kept
SetSort_FirstWins(op, pairs) ==
    [op EXCEPT !.sort =
        PyDict(DictOf([i \in 1..Len(pairs.items) |-> pairs.items[Len(pairs.items) + 1 - i]]))]
\* p[0].sort = dict(p[3])
SetSort(op, pairs) == [op EXCEPT !.sort = PyDict(DictOf(pairs.items))]

p_operation_select_condition ==
    /\ pc = "parse"
    /\ TopIs(<<"operation_select", "WHERE", "expression">>) /\ la \in SelectFollow
        /\ IF Deref(P(3, 1)).node = "SelectOperation" /\ IsExpression(P(3, 3))
       THEN /\ heap' = [heap EXCEPT ![P(3, 1).addr] = SetQuery(@, P(3, 3))]
            /\ Reduce(3, "operation_select", P(3, 1))
       ELSE Raise

p_operation_select_limit ==
    /\ pc = "parse"
    /\ TopIs(<<"operation_select", "LIMIT", "INTEGER">>) /\ la \in SelectFollow
    /\ IF Deref(P(3, 1)).node = "SelectOperation" /\ P(3, 3).node = "int"
       THEN /\ heap' = [heap EXCEPT ![P(3, 1).addr] = SetLimit(@, P(3, 3))]
            /\ Reduce(3, "operation_select", P(3, 1))
       ELSE Raise

p_operation_select_skip ==
    /\ pc = "parse"
    /\ TopIs(<<"operation_select", "SKIP", "INTEGER">>) /\ la \in SelectFollow
    /\ IF Deref(P(3, 1)).node = "SelectOperation" /\ P(3, 3).node = "int"
       THEN /\ heap' = [heap EXCEPT ![P(3, 1).addr] = SetSkip(@, P(3, 3))]
            /\ Reduce(3, "operation_select", P(3, 1))
       ELSE Raise

p_operation_select_sort ==
    /\ pc = "parse"
    /\ TopIs(<<"operation_select", "SORT", "sort_spec">>) /\ la \in SelectFollow
    /\ IF Deref(P(3, 1)).node = "SelectOperation" /\ P(3, 3).node \in {"list", "tuple"}
       THEN /\ heap' = [heap EXCEPT ![P(3, 1).addr] = SetSort(@, P(3, 3))]
            /\ Reduce(3, "operation_select", P(3, 1))
       ELSE Raise

(***************************************************************************)
(* Field names specification and lists of symbols.                         *)
(***************************************************************************)
p_fields_spec_star ==
    /\ pc = "parse"
    /\ TopIs(<<"SELECT", "STAR">>) /\ la = "FROM"
    /\ Reduce(1, "fields_spec", None)
    /\ UNCHANGED heap

p_fields_spec_names ==
    /\ pc = "parse"
    /\ TopIs(<<"SELECT", "symbol_list">>) /\ la = "FROM"
    /\ Reduce(1, "fields_spec", P(1, 1))
    /\ UNCHANGED heap

p_symbol_list_one ==
    /\ pc = "parse"
    /\ TopIs(<<"SELECT", "SYMBOL">>) /\ la \in {"COMMA", "FROM"}
    /\ Reduce(1, "symbol_list", PyList(<<P(1, 1)>>))
    /\ UNCHANGED heap

\* variant: a name already in the list is not added again
p_symbol_list_Dedups ==
    /\ pc = "parse"
    /\ TopIs(<<"symbol_list", "COMMA", "SYMBOL">>) /\ la \in {"COMMA", "FROM"}
    /\ Reduce(3, "symbol_list",
              IF \E i \in 1..Len(P(3, 1).items) : P(3, 1).items[i] = P(3, 3)
              THEN P(3, 1) ELSE ListAppend(P(3, 1), P(3, 3)))
    /\ UNCHANGED heap

p_symbol_list ==
    /\ pc = "parse"
    /\ TopIs(<<"symbol_list", "COMMA", "SYMBOL">>) /\ la \in {"COMMA", "FROM"}
    /\ Reduce(3, "symbol_list", ListAppend(P(3, 1), P(3, 3)))
    /\ UNCHANGED heap

(***************************************************************************)
(* Sort specification.                                                     *)
(***************************************************************************)
p_sort_direction_default ==
    /\ pc = "parse"
    /\ TopIs(<<"SYMBOL">>) /\ SymbolState = "sort_item" /\ la \in SortFollow
    /\ Reduce(0, "sort_direction", PyInt(1))
    /\ UNCHANGED heap

p_sort_direction_asc ==
    /\ pc = "parse"
    /\ TopIs(<<"ASC">>) /\ la \in SortFollow
    /\ Reduce(1, "sort_direction", PyInt(1))
    /\ UNCHANGED heap

p_sort_direction_desc ==
    /\ pc = "parse"
    /\ TopIs(<<"DESC">>) /\ la \in SortFollow
    /\ Reduce(1, "sort_direction", PyInt(-1))
    /\ UNCHANGED heap

p_sort_spec_item ==
    /\ pc = "parse"
    /\ TopIs(<<"SYMBOL", "sort_direction">>) /\ la \in SortFollow
    /\ Reduce(2, "sort_spec_item", PyTuple(P(2, 1), P(2, 2)))
    /\ UNCHANGED heap

p_sort_spec_one ==
    /\ pc = "parse"
    /\ TopIs(<<"SORT", "sort_spec_item">>) /\ la \in SortFollow
    /\ Reduce(1, "sort_spec", PyList(<<P(1, 1)>>))
    /\ UNCHANGED heap

p_sort_spec_list ==
    /\ pc = "parse"
    /\ TopIs(<<"sort_spec", "COMMA", "sort_spec_item">>) /\ la \in SortFollow
    /\ Reduce(3, "sort_spec", ListAppend(P(3, 1), P(3, 3)))
    /\ UNCHANGED heap

(***************************************************************************)
(* Base types.                                                             *)
(***************************************************************************)
p_base_type ==
    /\ pc = "parse"
    /\ \/ S(1) \in {"string", "FLOAT", "TRUE", "FALSE", "NULL", "map"}
       \/ S(1) = "INTEGER" /\ S(2) \notin {"LIMIT", "SKIP"}
    /\ la \in AtomFollow
    /\ Reduce(1, "base_type", P(1, 1))
    /\ UNCHANGED heap

p_string ==
    /\ pc = "parse"
    /\ TopIs(<<"STRING">>) /\ la \in AtomFollow
    /\ LET cs == P(1, 1).chars IN
       IF cs[1] = cs[Len(cs)] /\ cs[1] \in {"'", "\""}
       THEN Reduce(1, "string", PyText(SubSeq(cs, 2, Len(cs) - 1))) /\ UNCHANGED heap
       ELSE Raise

p_map_empty ==
    /\ pc = "parse"
    /\ TopIs(<<"LBRACE", "RBRACE">>) /\ la \in AtomFollow
    /\ Reduce(2, "map", Map(<<>>))
    /\ UNCHANGED heap

\* (i.name, i.expression) for i in p[2]
NamePairs(l) == [i \in 1..Len(l.items) |-> PyTuple(l.items[i].name, l.items[i].expression)]

p_map ==
    /\ pc = "parse"
    /\ la \in AtomFollow
    /\ \/ /\ TopIs(<<"LBRACE", "named_expression_list", "RBRACE">>)
          /\ Reduce(3, "map", Map(NamePairs(P(3, 2))))
       \/ /\ TopIs(<<"LBRACE", "named_expression_list", "COMMA", "RBRACE">>)
          /\ Reduce(4, "map", Map(NamePairs(P(4, 2))))
    /\ UNCHANGED heap

(***************************************************************************)
(* The parser as a whole.                                                  *)
(***************************************************************************)
Reductions ==
    \/ p_statement \/ p_operation
    \/ p_expression_in_parens \/ p_expression_base_type \/ p_expression_symbol
    \/ p_expression_operation \/ p_expression_comparison
    \/ p_expression_logical_and \/ p_expression_logical_or \/ p_expression_not
    \/ p_expression_call \/ p_expression_list_one \/ p_expression_list
    \/ p_named_expression_as \/ p_named_expression
    \/ p_named_expression_list_one \/ p_named_expression_list
    \/ p_operation_aggregate \/ p_operation_aggregate_project
    \/ p_operation_select_base \/ p_operation_select_condition
    \/ p_operation_select_limit \/ p_operation_select_skip \/ p_operation_select_sort
    \/ p_fields_spec_star \/ p_fields_spec_names \/ p_symbol_list_one \/ p_symbol_list
    \/ p_sort_direction_default \/ p_sort_direction_asc \/ p_sort_direction_desc
    \/ p_sort_spec_item \/ p_sort_spec_one \/ p_sort_spec_list
    \/ p_base_type \/ p_string \/ p_map_empty \/ p_map

\* no action of the current state takes the lookahead: yacc calls p_error,
\* which raises
p_error ==
    /\ pc = "parse"
    /\ ~ENABLED (Shift \/ Accept \/ Reductions)
    /\ Raise

Next == Shift \/ Accept \/ Reductions \/ p_error

Spec == Init /\ [][Next]_vars

(***************************************************************************)
(* What a query means, read off its description: the values the claims     *)
(* compare the parser's result with.                                       *)
(***************************************************************************)
Accepted == pc = "accept"

\* the AST of an operand token
AtomAST(t) == IF t.type = "SYMBOL" THEN Symbol(t.value) ELSE t.value

\* the AST of  l op r
BinAST(op, l, r) ==
    CASE op \in ArithOps -> Operation(l, PyStr(Lexeme(op)), r)
      [] op \in CmpOps -> Comparison(l, PyStr(Lexeme(op)), r)
      [] op = "AND" -> LogicalAnd(l, r)
      [] op = "OR" -> LogicalOr(l, r)

\* the AST of an operand or of one operator between two operands
SimpleAST(toks) ==
    IF Len(toks) = 1 THEN AtomAST(toks[1])
    ELSE BinAST(toks[2].type, AtomAST(toks[1]), AtomAST(toks[3]))

\* binding strength of the binary operators, weakest first
Level(op) ==
    CASE op = "OR" -> 1
      [] op = "AND" -> 2
      [] op \in CmpOps -> 4
      [] op \in {"PLUS", "MINUS"} -> 5
      [] op \in {"STAR", "SLASH", "PERCENT"} -> 6

IsAtom(t) == t.type \in {"SYMBOL", "INTEGER"}
\* the text is  x o1 y o2 z  with operands x, y, z
IsChain3 ==
    /\ input.kind = "text" /\ Len(tokens) = 5
    /\ IsAtom(tokens[1]) /\ IsAtom(tokens[3]) /\ IsAtom(tokens[5])
    /\ tokens[2].type \in BinOps /\ tokens[4].type \in BinOps
LeftGrouped ==
    BinAST(tokens[4].type,
           BinAST(tokens[2].type, AtomAST(tokens[1]), AtomAST(tokens[3])),
           AtomAST(tokens[5]))
RightGrouped ==
    BinAST(tokens[2].type,
           AtomAST(tokens[1]),
           BinAST(tokens[4].type, AtomAST(tokens[3]), AtomAST(tokens[5])))

\* index of the last clause of the kind among the modifiers, 0 if there is none
LastClause(mods, kw) ==
    LET I == {i \in 1..Len(mods) : mods[i].kw = kw}
    IN  IF I = {} THEN 0 ELSE CHOOSE i \in I : \A j \in I : j <= i

Direction(dir) == IF dir = "DESC" THEN PyInt(-1) ELSE PyInt(1)
\* the mapping a SORT clause stands for: each name with its last direction
SortValue(items) ==
    PyDict([n \in {items[i].name : i \in 1..Len(items)} |->
              LET I == {i \in 1..Len(items) : items[i].name = n}
              IN  Direction(items[CHOOSE i \in I : \A j \in I : j <= i].dir)])

\* the value the clause gives to its field
ClauseValue(cl) ==
    CASE cl.kw = "WHERE" -> SimpleAST(cl.arg.toks)
      [] cl.kw \in {"LIMIT", "SKIP"} -> cl.arg
      [] cl.kw = "SORT" -> SortValue(cl.arg.items)

\* the value of the field after all the modifiers
FinalValue(mods, kw) ==
    IF LastClause(mods, kw) = 0 THEN None ELSE ClauseValue(mods[LastClause(mods, kw)])

NamedValue(it) == named_expression(PyStr(it.name), SimpleAST(it.toks))
StageValue(items) ==
    AggregateCmdProject(PyList([i \in 1..Len(items) |-> NamedValue(items[i])]))
FieldsValue(f) ==
    IF f.star THEN None ELSE PyList([i \in 1..Len(f.names) |-> PyStr(f.names[i])])

(***************************************************************************)
(* C1: last write wins.  When a SELECT statement with any sequence of      *)
(* WHERE, LIMIT, SKIP and SORT clauses has been parsed, query, limit, skip *)
(* and sort of the returned SelectOperation each hold the value of the     *)
(* last clause of their kind, and None if there is no such clause.         *)
(***************************************************************************)
C1_LastWriteWins ==
    (Accepted /\ input.kind = "select") =>
        /\ result.node = "SelectOperation"
        /\ result.query = FinalValue(input.mods, "WHERE")
        /\ result.limit = FinalValue(input.mods, "LIMIT")
        /\ result.skip = FinalValue(input.mods, "SKIP")
        /\ result.sort = FinalValue(input.mods, "SORT")

\* SELECT * FROM c LIMIT 1 SKIP 1 LIMIT 2 has been parsed, and limit is 2
C1_Witness ==
    /\ Accepted /\ input.kind = "select"
    /\ input.mods = <<Clause("LIMIT", PyInt(1)), Clause("SKIP", PyInt(1)),
                      Clause("LIMIT", PyInt(2))>>
    /\ result.limit = PyInt(2) /\ result.skip = PyInt(1) /\ result.query = None

(***************************************************************************)
(* C2: aggregate pipeline accumulation.  AGGREGATE <symbol> creates an     *)
(* operation with an empty pipeline; at every moment of the parse the      *)
(* pipeline holds, in source order, the stages of the PROJECT clauses      *)
(* recognized so far, each with exactly the named expressions of its       *)
(* clause; and the returned operation has one stage per PROJECT clause.    *)
(***************************************************************************)
C2_PipelineAccumulates ==
    input.kind = "aggregate" =>
        LET want == [i \in 1..Len(input.stages) |-> StageValue(input.stages[i])] IN
        /\ \A a \in 1..Len(heap) :
              /\ heap[a].node = "AggregateOperation"
              /\ Len(heap[a].pipeline.items) <= Len(want)
              /\ heap[a].pipeline.items = SubSeq(want, 1, Len(heap[a].pipeline.items))
        /\ Accepted =>
              /\ result.node = "AggregateOperation"
              /\ result.collection = PyStr(input.coll)
              /\ result.pipeline.items = want

\* two PROJECT clauses of different lengths have been parsed into two stages
C2_Witness ==
    /\ Accepted /\ input.kind = "aggregate"
    /\ Len(input.stages) = 2
    /\ Len(input.stages[1]) = 2 /\ Len(input.stages[2]) = 1
    /\ Len(result.pipeline.items) = 2
    /\ Len(result.pipeline.items[1].fields.items) = 2

(***************************************************************************)
(* C3: logical connectives bind looser than comparisons (OR < AND <        *)
(* comparison).  a > 1 AND b < 2 parses as And(Cmp(a,>,1), Cmp(b,<,2)),    *)
(* x AND y OR z as Or(And(x,y), z), and in a text without parentheses no   *)
(* comparison has a LogicalAnd or LogicalOr operand.                       *)
(***************************************************************************)
RECURSIVE CmpOverLogical(_)
CmpOverLogical(e) ==
    CASE e.node = "Comparison" ->
           \/ e.first.node \in {"LogicalAnd", "LogicalOr"}
           \/ e.second.node \in {"LogicalAnd", "LogicalOr"}
           \/ CmpOverLogical(e.first) \/ CmpOverLogical(e.second)
      [] e.node = "Operation" -> CmpOverLogical(e.first) \/ CmpOverLogical(e.second)
      [] e.node \in {"LogicalAnd", "LogicalOr"} ->
           CmpOverLogical(e.left) \/ CmpOverLogical(e.right)
      [] e.node = "LogicalNot" -> CmpOverLogical(e.operand)
      [] OTHER -> FALSE

C3_LogicalLooserThanComparison ==
    (Accepted /\ input.kind = "text") =>
        /\ tokens = <<SymTok("a"), OpTok("GT"), IntTok(1), OpTok("AND"),
                      SymTok("b"), OpTok("LT"), IntTok(2)>>
             => result = LogicalAnd(Comparison(Symbol(PyStr("a")), PyStr(">"), PyInt(1)),
                                    Comparison(Symbol(PyStr("b")), PyStr("<"), PyInt(2)))
        /\ (IsChain3 /\ tokens[2].type = "AND" /\ tokens[4].type = "OR")
             => result = LeftGrouped
        /\ (\A i \in 1..Len(tokens) : tokens[i].type \notin {"LPAREN", "LBRACE"})
             => ~CmpOverLogical(result)

(***************************************************************************)
(* C4: arithmetic precedence.  In  x o1 y o2 z  a multiplicative operator  *)
(* binds tighter than an additive one whatever their order: 1 + 2 * 3 is   *)
(* Operation(1, +, Operation(2, *, 3)) and 1 * 2 + 3 is                    *)
(* Operation(Operation(1, *, 2), +, 3).                                    *)
(***************************************************************************)
C4_ArithmeticPrecedence ==
    (Accepted /\ IsChain3 /\ tokens[2].type \in ArithOps /\ tokens[4].type \in ArithOps) =>
        /\ Level(tokens[2].type) < Level(tokens[4].type) => result = RightGrouped
        /\ Level(tokens[2].type) > Level(tokens[4].type) => result = LeftGrouped

(***************************************************************************)
(* C5: left associativity.  A chain  a op b op' c  of binary arithmetic or *)
(* logical operators of one precedence level parses with the left pair     *)
(* grouped first: a - b - c is Operation(Operation(a,-,b),-,c).            *)
(***************************************************************************)
C5_LeftAssociative ==
    (/\ Accepted /\ IsChain3
     /\ tokens[2].type \in ArithOps \cup {"AND", "OR"}
     /\ tokens[4].type \in ArithOps \cup {"AND", "OR"}
     /\ Level(tokens[2].type) = Level(tokens[4].type))
        => result = LeftGrouped

(***************************************************************************)
(* C6: unary NOT.  NOT <expr> yields a LogicalNot node whose operand is    *)
(* the AST of the expression that follows the keyword, here an operand or  *)
(* a parenthesized operation.                                              *)
(***************************************************************************)
C6_NotOperand ==
    (Accepted /\ input.kind = "text" /\ tokens[1].type = "NOT") =>
        /\ (Len(tokens) = 2 /\ IsAtom(tokens[2]))
             => result = LogicalNot(AtomAST(tokens[2]))
        /\ (Len(tokens) = 6 /\ tokens[2].type = "LPAREN" /\ tokens[6].type = "RPAREN")
             => result = LogicalNot(SimpleAST(SubSeq(tokens, 3, 5)))

(***************************************************************************)
(* C7: the SELECT base production.  SELECT <fields> FROM <coll> yields a   *)
(* SelectOperation with collection <coll> and fields the listed names in   *)
(* source order, duplicates kept, or None for *; without a modifier        *)
(* clause query, limit, skip and sort are None.                            *)
(***************************************************************************)
C7_SelectBase ==
    (Accepted /\ input.kind = "select") =>
        /\ result.node = "SelectOperation"
        /\ result.collection = PyStr(input.coll)
        /\ result.fields = FieldsValue(input.fields)
        /\ input.mods = <<>> =>
              /\ result.query = None /\ result.limit = None
              /\ result.skip = None /\ result.sort = None

\* SELECT a, b, a FROM d has been parsed with all three names kept
C7_Witness ==
    /\ Accepted /\ input.kind = "select" /\ input.mods = <<>>
    /\ input.fields = Fields(FALSE, <<"a", "b", "a">>) /\ input.coll = "d"
    /\ result.fields = PyList(<<PyStr("a"), PyStr("b"), PyStr("a")>>)

(***************************************************************************)
(* C8: sort specification.  A sort item maps to +1 when its direction is   *)
(* omitted or ASC and to -1 when it is DESC, and SORT sets sort to the     *)
(* mapping of each name to the direction of its last occurrence in the     *)
(* clause.                                                                 *)
(***************************************************************************)
C8_SortSpec ==
    (Accepted /\ input.kind = "select" /\ Len(input.mods) = 1
       /\ input.mods[1].kw = "SORT") =>
        /\ result.sort = SortValue(input.mods[1].arg.items)
        /\ \A i \in 1..Len(input.mods[1].arg.items) :
              LET it == input.mods[1].arg.items[i] IN
              (\A j \in (i + 1)..Len(input.mods[1].arg.items) :
                  input.mods[1].arg.items[j].name # it.name)
                => result.sort.map[it.name] = (IF it.dir = "DESC" THEN PyInt(-1) ELSE PyInt(1))

\* SORT a DESC, a  has been parsed: the later, ascending item is the one kept
C8_Witness ==
    /\ Accepted /\ input.kind = "select" /\ Len(input.mods) = 1
    /\ input.mods[1] = Clause("SORT", PyList(<<SortItem("a", "DESC"), SortItem("a", "")>>))
    /\ result.sort = PyDict([n \in {"a"} |-> PyInt(1)])

(***************************************************************************)
(* C9: named expressions and map literals.  <expr> AS <name> and           *)
(* <name> = <expr> produce the same (name, expression) pair, a list keeps  *)
(* its elements in source order, a map literal with a trailing comma is    *)
(* the same Map as without it, built from exactly the list's pairs, and    *)
(* { } is the empty Map.                                                   *)
(***************************************************************************)
C9_NamedAndMaps ==
    (Accepted /\ input.kind = "map") =>
        result = Map([i \in 1..Len(input.items) |->
                        PyTuple(PyStr(input.items[i].name), SimpleAST(input.items[i].toks))])

\* { x AS a, b = x, } has been parsed
C9_Witness ==
    /\ Accepted /\ input.kind = "map" /\ input.trailing
    /\ input.items = <<NamedItem("a", "as", <<SymTok("x")>>),
                       NamedItem("b", "eq", <<SymTok("x")>>)>>
    /\ Len(result.entries) = 2
    /\ result.entries[1].fst = PyStr("a") /\ result.entries[2].fst = PyStr("b")

(***************************************************************************)
(* C10: frame of the modifier reductions.  Reducing a WHERE, LIMIT, SKIP   *)
(* or SORT clause leaves the same operation instance on the stack and      *)
(* changes at most the clause's own field of it; collection and fields of  *)
(* an operation never change once it is created.                           *)
(***************************************************************************)
FieldOf(kw) ==
    CASE kw = "WHERE" -> "query" [] kw = "LIMIT" -> "limit"
      [] kw = "SKIP" -> "skip" [] kw = "SORT" -> "sort"
SelectFields == {"collection", "fields", "query", "limit", "skip", "sort"}

C10_ModifierFrame ==
    [][/\ (/\ pc = "parse" /\ pc' = "parse"
           /\ S(3) = "operation_select" /\ S(2) \in {"WHERE", "LIMIT", "SKIP", "SORT"}
           /\ Len(symstack') = Len(symstack) - 2)
          => /\ symstack'[Len(symstack')].sym = "operation_select"
             /\ symstack'[Len(symstack')].val = P(3, 1)
             /\ Len(heap') = Len(heap)
             /\ \A f \in SelectFields \ {FieldOf(S(2))} :
                   heap'[P(3, 1).addr][f] = heap[P(3, 1).addr][f]
       /\ \A a \in 1..Len(heap) :
             /\ Len(heap') >= a
             /\ heap'[a].collection = heap[a].collection
             /\ heap[a].node = "SelectOperation" => heap'[a].fields = heap[a].fields
      ]_vars

\* SELECT a, b FROM c LIMIT 1 SKIP 2 WHERE b has been parsed: each reduction
\* found the fields of the earlier ones set and left them
C10_Witness ==
    /\ Accepted /\ input.kind = "select"
    /\ input.fields = Fields(FALSE, <<"a", "b">>)
    /\ input.mods = <<Clause("LIMIT", PyInt(1)), Clause("SKIP", PyInt(2)),
                      Clause("WHERE", [node |-> "expr", toks |-> <<SymTok("b")>>])>>
    /\ result.limit = PyInt(1) /\ result.skip = PyInt(2)
    /\ result.query = Symbol(PyStr("b"))
    /\ result.fields = PyList(<<PyStr("a"), PyStr("b")>>)

====
